---- MODULE Spec2Model ----
(***************************************************************************)
(* PDFlex (src/main.py): bounded upload ingestion and the lifecycle of the *)
(* temporary files of the five document operations.                        *)
(*                                                                         *)
(* Four specifications share the module:                                   *)
(*   SpecExt   validar_extension applied to bounded file names             *)
(*   SpecSave  guardar_con_limite, one chunk step at a time                *)
(*   Spec      the handlers, the responses and the cleanup tasks of two    *)
(*             concurrent requests                                         *)
(*   SpecSolo  the same for one request, on wider sets of inputs           *)
(***************************************************************************)
EXTENDS Integers, Sequences, FiniteSets, TLC

VARIABLES pc, loc, fs, resp, bg, created, loop, vx, g, sv

vars == <<pc, loc, fs, resp, bg, created, loop, vx, g, sv>>

(***************************************************************************)
(* Bounds of the model                                                     *)
(***************************************************************************)
\* bytes in one model "MiB": stands for 1024 * 1024 in lines 64 and 69
MiB == 2
\* longest exhaustively enumerated file name
MaxNameLen == 5
\* most files in one multi-file request
MaxFiles == 2
\* most pages in an uploaded document
MaxPages == 5
\* largest total of bytes given to the computation of the savings
MaxBytes == 12
\* most paths in a list given to borrar_archivos on its own
MaxPaths == 3

(***************************************************************************)
(* Configuration (lines 18-21)                                             *)
(***************************************************************************)
UPLOAD_DIR == "temp_uploads"
OUTPUT_DIR == "temp_outputs"
MAX_MB_PER_FILE == 30

PDF == <<".", "p", "d", "f">>
JPG == <<".", "j", "p", "g">>
JPEG == <<".", "j", "p", "e", "g">>
PNG == <<".", "p", "n", "g">>

ALLOWED_EXTENSIONS == {PDF, JPG, JPEG, PNG}

(***************************************************************************)
(* Strings are sequences of one-character strings.                         *)
(***************************************************************************)
Max(S) == CHOOSE x \in S : \A y \in S : y <= x

Min(a, b) == IF a <= b THEN a ELSE b

\* str.lower() on the characters the model uses
LowerChar(c) ==
    CASE c = "P" -> "p"
      [] c = "D" -> "d"
      [] c = "F" -> "f"
      [] c = "J" -> "j"
      [] c = "G" -> "g"
      [] c = "E" -> "e"
      [] c = "N" -> "n"
      [] c = "X" -> "x"
      [] c = "A" -> "a"
      [] OTHER -> c

lower(s) == [i \in 1..Len(s) |-> LowerChar(s[i])]

\* str.rfind(c) + 1: the 1-based position of the last c in p, 0 when absent
rfind(p, c) ==
    LET S == {i \in 1..Len(p) : p[i] = c}
    IN  IF S = {} THEN 0 ELSE Max(S)

\* os.path.splitext(p) (posixpath: sep "/", extsep "."): <<root, ext>>.
\* The extension starts at the last dot of the last path component, and a
\* component made of leading dots only has no extension.
splitext(p) ==
    LET sepIndex == rfind(p, "/")
        dotIndex == rfind(p, ".")
    IN  IF /\ dotIndex > sepIndex
           /\ \E i \in (sepIndex + 1)..(dotIndex - 1) : p[i] # "."
        THEN <<SubSeq(p, 1, dotIndex - 1), SubSeq(p, dotIndex, Len(p))>>
        ELSE <<p, <<>>>>

(***************************************************************************)
(* Errors: the exception a step raises.  status and detail are those of    *)
(* the HTTPException; other exceptions carry status 0.                     *)
(***************************************************************************)
NoError == [kind |-> "none", status |-> 0]
HTTPException(status_code, kind) == [kind |-> kind, status |-> status_code]
OtherException(kind) == [kind |-> kind, status |-> 0]

(***************************************************************************)
(* validar_extension (lines 43-47)                                         *)
(***************************************************************************)
validar_extension_case_sensitive(filename, permitidas) ==
    LET ext == splitext(filename)[2]
    IN  IF ext \notin permitidas
        THEN [raised |-> HTTPException(400, "InvalidExtension"), value |-> <<>>]
        ELSE [raised |-> NoError, value |-> ext]

\* lines 43-47 returning the extension as it was written in the name
validar_extension_returns_raw(filename, permitidas) ==
    LET ext == splitext(filename)[2]
    IN  IF lower(ext) \notin permitidas
        THEN [raised |-> HTTPException(400, "InvalidExtension"), value |-> <<>>]
        ELSE [raised |-> NoError, value |-> ext]

validar_extension(filename, permitidas) ==
    LET ext == lower(splitext(filename)[2])
    IN  IF ext \notin permitidas
        THEN [raised |-> HTTPException(400, "InvalidExtension"), value |-> <<>>]
        ELSE [raised |-> NoError, value |-> ext]

(***************************************************************************)
(* guardar_con_limite (lines 59-78).  The state of one call:               *)
(*   len, endless  the upload stream: its true length, or never ending     *)
(*   pos           bytes read from the stream so far (byte i has value i)  *)
(*   chunk         the chunk held in memory                                *)
(*   exists, dest  the destination file and the bytes written to it        *)
(***************************************************************************)
\* the size of one read: upload_file.file.read(1024 * 1024), line 69
CHUNK == MiB

g_call(len, endless, max_mb) ==
    [pc |-> "open", len |-> len, endless |-> endless, max_mb |-> max_mb,
     pos |-> 0, chunk |-> <<>>, file_size |-> 0, limit_bytes |-> 0,
     exists |-> FALSE, dest |-> <<>>, raised |-> NoError]

\* lines 64-67: the limit, the counter, open(destino_path, "wb")
g_open(s) ==
    [s EXCEPT !.pc = "read", !.limit_bytes = s.max_mb * MiB,
              !.file_size = 0, !.exists = TRUE, !.dest = <<>>]

\* the most bytes one read can return
g_avail(s) == IF s.endless THEN CHUNK ELSE Min(CHUNK, s.len - s.pos)

\* line 69: read k bytes (k = 0 only at the end of the stream)
g_read(s, k) ==
    [s EXCEPT !.pc = "chunk", !.chunk = [i \in 1..k |-> s.pos + i],
              !.pos = s.pos + k]

\* lines 70-71: an empty chunk ends the loop; leaving the with closes the file
g_break(s) == [s EXCEPT !.pc = "returned"]

\* lines 72-77 without the os.remove of line 76
g_count_keeps_file(s) ==
    LET size == s.file_size + Len(s.chunk)
    IN  IF size > s.limit_bytes
        THEN [s EXCEPT !.file_size = size, !.pc = "raised",
                       !.raised = HTTPException(413, "SizeLimitExceeded")]
        ELSE [s EXCEPT !.file_size = size, !.pc = "write"]

\* lines 72-77 comparing the total before the chunk is added to it
g_count_stale_total(s) ==
    LET size == s.file_size + Len(s.chunk)
    IN  IF s.file_size > s.limit_bytes
        THEN [s EXCEPT !.file_size = size, !.exists = FALSE, !.dest = <<>>,
                       !.pc = "raised",
                       !.raised = HTTPException(413, "SizeLimitExceeded")]
        ELSE [s EXCEPT !.file_size = size, !.pc = "write"]

\* lines 72-77 with the ceiling exclusive (>= at line 73)
g_count_exclusive(s) ==
    LET size == s.file_size + Len(s.chunk)
    IN  IF size >= s.limit_bytes
        THEN [s EXCEPT !.file_size = size, !.exists = FALSE, !.dest = <<>>,
                       !.pc = "raised",
                       !.raised = HTTPException(413, "SizeLimitExceeded")]
        ELSE [s EXCEPT !.file_size = size, !.pc = "write"]

\* lines 72-77: count the chunk; over the limit: close, remove, raise 413
g_count(s) ==
    LET size == s.file_size + Len(s.chunk)
    IN  IF size > s.limit_bytes
        THEN [s EXCEPT !.file_size = size, !.exists = FALSE, !.dest = <<>>,
                       !.pc = "raised",
                       !.raised = HTTPException(413, "SizeLimitExceeded")]
        ELSE [s EXCEPT !.file_size = size, !.pc = "write"]

\* line 78: buffer.write(chunk)
g_write(s) == [s EXCEPT !.pc = "read", !.dest = s.dest \o s.chunk]

\* line 69 raising (broken stream): the with closes the file, which stays
g_read_fails(s) ==
    [s EXCEPT !.pc = "raised", !.raised = OtherException("IOFailure")]

\* line 78 raising after j bytes of the chunk reached the file
g_write_fails(s, j) ==
    [s EXCEPT !.pc = "raised", !.raised = OtherException("IOFailure"),
              !.dest = s.dest \o SubSeq(s.chunk, 1, j)]

g_done(s) == s.pc \in {"returned", "raised"}

\* the whole call on full-size reads; fault: the first read or the first
\* write raises an I/O error, or none does
RECURSIVE g_run(_, _)
g_run(s, fault) ==
    CASE s.pc = "open" -> g_run(g_open(s), fault)
      [] s.pc = "read" ->
            IF fault = "read" THEN g_read_fails(s)
            ELSE g_run(g_read(s, g_avail(s)), fault)
      [] s.pc = "chunk" ->
            IF s.chunk = <<>> THEN g_break(s) ELSE g_run(g_count(s), fault)
      [] s.pc = "write" ->
            IF fault = "write" THEN g_write_fails(s, 0)
            ELSE g_run(g_write(s), fault)
      [] OTHER -> s

guardar_con_limite(len, max_mb, fault) == g_run(g_call(len, FALSE, max_mb), fault)

(***************************************************************************)
(* The requests.  Every handler is an async def without an await, so it    *)
(* runs on the event loop from its first line to its return: loop names    *)
(* the request whose handler is running (0: none).  The response is sent   *)
(* and the background tasks run after the handler has returned.            *)
(***************************************************************************)
Reqs == {1, 2}

Ops == {"unir", "comprimir", "img2pdf", "extraer", "rotar"}

NoPath == <<>>

\* os.path.join(dir, f"{prefix}{uuid}{ext}")
join(dir, prefix, id, ext) == <<dir, prefix, id, ext>>

\* os.path.basename(path)
basename(path) == SubSeq(path, 2, 4)

\* uuid.uuid4().hex: an identifier no other call returns (the pair of the
\* request and the number of the call within it)
uuid4(r) == <<r, loc[r].nuuid + 1>>

Range(q) == {q[i] : i \in 1..Len(q)}

\* fs is the set of the paths of the files in the two directories
exists(path) == path \in fs

NoResponse == [kind |-> "none", status_code |-> 0, path |-> NoPath,
               filename |-> "", error |-> NoError, porcentaje |-> 0]

JSONResponse(status_code, e) ==
    [kind |-> "json", status_code |-> status_code, path |-> NoPath,
     filename |-> "", error |-> e, porcentaje |-> 0]

FileResponse(path, filename, porcentaje) ==
    [kind |-> "file", status_code |-> 200, path |-> path,
     filename |-> filename, error |-> NoError, porcentaje |-> porcentaje]

loc0 ==
    [op |-> "none", nfiles |-> 0, i |-> 0, nuuid |-> 0, ext |-> <<>>,
     temp_paths |-> <<>>, temp_inputs |-> <<>>, processed_files |-> <<>>,
     img_paths |-> <<>>, input_path |-> NoPath, output_path |-> NoPath,
     final_path |-> NoPath, total_orig |-> 0, total_comp |-> 0,
     inicio |-> 0, fin |-> 0, grados |-> 0, total_pages |-> 0,
     download_name |-> "", pages |-> <<>>,
     entries |-> <<>>, exc |-> NoError, at |-> "none",
     file_paths |-> <<>>, k |-> 0, rm_raised |-> FALSE]

\* A run with one request only (the other is "off") takes its documents and
\* its form fields from the wide sets, a run with concurrent requests from
\* the narrow ones.
Wide == \E r \in Reqs : pc[r] = "off"

\* the uploads the handlers are given
FileNames ==
    {<<"a">> \o PDF, <<"a", ".", "P", "D", "F">>, <<"a", ".", "e", "x", "e">>,
     <<"a">> \o PNG, <<"a", ".", "J", "P", "G">>}

LimitBytes == MAX_MB_PER_FILE * MiB

StreamLens == IF Wide THEN {0, 1, LimitBytes + 1} ELSE {1, LimitBytes + 1}

Faults == {"none", "read", "write"}

\* the angles a form can carry
Grados == IF Wide THEN {-90, 0, 45, 90, 180, 270, 360} ELSE {45, 180}

\* the numbers of pages of a document, the page numbers a form can carry
PageCounts == IF Wide THEN 0..MaxPages ELSE {2}

PageArgs == IF Wide THEN 0..(MaxPages + 1) ELSE 1..3

\* os.remove raising in borrar_archivos is explored in the runs with one request
RemoveMayRaise == Wide

\* the sizes a compressed document can have
CompSizes == IF Wide THEN {0, 2} ELSE {0}

\* int(x / y * 100) for y > 0: int() truncates towards zero.  The quotient
\* is taken exactly; the double-precision product of the code can fall just
\* below a whole number and then truncate to one less.
int_percent(x, y) ==
    IF x >= 0 THEN (x * 100) \div y ELSE -(((-x) * 100) \div y)

\* lines 169-170: ahorro and porcentaje
savings_percent(total_orig, total_comp) ==
    LET ahorro == total_orig - total_comp
    IN  IF total_orig > 0 THEN int_percent(ahorro, total_orig) ELSE 0

\* the destination of a guardar_con_limite call after the call
Persisted(f, path, res) == IF res.exists THEN f \cup {path} ELSE f

\* a step of the handler of r raises e and no except clause takes it: the
\* exception leaves the handler
Raised_uncaught(r, e, l) ==
    /\ pc' = [pc EXCEPT ![r] = "propagated"]
    /\ loc' = [loc EXCEPT ![r] = [l EXCEPT !.exc = e, !.at = pc[r]]]

\* a step of the handler of r raises e: control goes to its except clause
\* (at: the step that raised)
Raised(r, e, l) ==
    /\ pc' = [pc EXCEPT ![r] = l.op \o "_except"]
    /\ loc' = [loc EXCEPT ![r] = [l EXCEPT !.exc = e, !.at = pc[r]]]

(***************************************************************************)
(* borrar_archivos (lines 49-57), one path of file_paths at a time, called *)
(* by an except clause (pc "borrar") or run as a background task.          *)
(***************************************************************************)
\* lines 49-57 without the try of line 52: a removal that raises ends the loop
borrar_archivos_aborts(r) ==
    /\ pc[r] \in {"borrar", "background"}
    /\ loc[r].k <= Len(loc[r].file_paths)
    /\ LET path == loc[r].file_paths[loc[r].k]
       IN  \/ /\ fs' = IF exists(path) THEN fs \ {path} ELSE fs
              /\ loc' = [loc EXCEPT ![r].k = @ + 1]
           \/ /\ exists(path)
              /\ RemoveMayRaise
              /\ fs' = fs
              /\ loc' = [loc EXCEPT ![r].k = Len(loc[r].file_paths) + 1,
                                    ![r].rm_raised = TRUE]
    /\ UNCHANGED <<pc, resp, bg, created, loop, vx, g, sv>>

borrar_archivos(r) ==
    /\ pc[r] \in {"borrar", "background"}
    /\ loc[r].k <= Len(loc[r].file_paths)
    /\ LET path == loc[r].file_paths[loc[r].k]
       IN  \/ /\ fs' = IF exists(path) THEN fs \ {path} ELSE fs
              /\ loc' = [loc EXCEPT ![r].k = @ + 1]
           \/ /\ exists(path)
              /\ RemoveMayRaise
              /\ fs' = fs
              /\ loc' = [loc EXCEPT ![r].k = @ + 1, ![r].rm_raised = TRUE]
    /\ UNCHANGED <<pc, resp, bg, created, loop, vx, g, sv>>

\* the last line of every except clause (116, 182, 212, 253, 293)
except_return(r) ==
    /\ pc[r] = "borrar"
    /\ loc[r].k > Len(loc[r].file_paths)
    /\ resp' = [resp EXCEPT ![r] = JSONResponse(500, loc[r].exc)]
    /\ pc' = [pc EXCEPT ![r] = "sending"]
    /\ loc' = [loc EXCEPT ![r] = loc0]
    /\ loop' = 0
    /\ UNCHANGED <<fs, bg, created, vx, g, sv>>

\* the response has been sent to the client: the background tasks start
Send(r) ==
    /\ pc[r] = "sending"
    /\ IF bg[r] = <<>>
       THEN /\ pc' = [pc EXCEPT ![r] = "done"]
            /\ loc' = loc
       ELSE /\ pc' = [pc EXCEPT ![r] = "background"]
            /\ loc' = [loc EXCEPT ![r].file_paths = bg[r][1], ![r].k = 1]
    /\ UNCHANGED <<fs, resp, bg, created, loop, vx, g, sv>>

\* the background task has returned
background_done(r) ==
    /\ pc[r] = "background"
    /\ loc[r].k > Len(loc[r].file_paths)
    /\ pc' = [pc EXCEPT ![r] = "done"]
    /\ UNCHANGED <<loc, fs, resp, bg, created, loop, vx, g, sv>>

(***************************************************************************)
(* api_unir (lines 88-116)                                                 *)
(***************************************************************************)
\* lines 89-95
api_unir_start(r) ==
    /\ pc[r] = "idle"
    /\ loop = 0
    /\ \E nfiles \in 0..MaxFiles :
       IF nfiles = 0
       THEN /\ resp' = [resp EXCEPT ![r] =
                          JSONResponse(400, HTTPException(400, "NoFiles"))]
            /\ pc' = [pc EXCEPT ![r] = "sending"]
            /\ UNCHANGED <<loc, loop>>
       ELSE /\ loc' = [loc EXCEPT
                 ![r].op = "unir", ![r].nfiles = nfiles,
                 ![r].output_path = join(OUTPUT_DIR, "Unido_", uuid4(r), PDF),
                 ![r].nuuid = @ + 1, ![r].temp_paths = <<>>, ![r].i = 1]
            /\ pc' = [pc EXCEPT ![r] = "unir_validar"]
            /\ loop' = r
            /\ UNCHANGED resp
    /\ UNCHANGED <<fs, bg, created, vx, g, sv>>

\* lines 98-99: the next file of the loop, or the end of the loop
api_unir_validar(r) ==
    /\ pc[r] = "unir_validar"
    /\ IF loc[r].i > loc[r].nfiles
       THEN /\ pc' = [pc EXCEPT ![r] = "unir_write"]
            /\ loc' = loc
       ELSE \E filename \in FileNames :
              LET v == validar_extension(filename, {PDF})
              IN  IF v.raised # NoError
                  THEN Raised(r, v.raised, loc[r])
                  ELSE /\ pc' = [pc EXCEPT ![r] = "unir_guardar"]
                       /\ loc' = loc
    /\ UNCHANGED <<fs, resp, bg, created, loop, vx, g, sv>>

\* lines 101-105
api_unir_guardar(r) ==
    /\ pc[r] = "unir_guardar"
    /\ \E len \in StreamLens, fault \in Faults :
         LET safe_path == join(UPLOAD_DIR, "", uuid4(r), PDF)
             res == guardar_con_limite(len, MAX_MB_PER_FILE, fault)
             l == [loc[r] EXCEPT !.nuuid = @ + 1]
         IN  /\ fs' = Persisted(fs, safe_path, res)
             /\ created' = [created EXCEPT ![r] = @ \cup {safe_path}]
             /\ IF res.raised # NoError
                THEN Raised(r, res.raised, l)
                ELSE /\ pc' = [pc EXCEPT ![r] = "unir_append"]
                     /\ loc' = [loc EXCEPT ![r] =
                          [l EXCEPT !.temp_paths = Append(@, safe_path)]]
    /\ UNCHANGED <<resp, bg, loop, vx, g, sv>>

\* line 106: merger.append(safe_path), which raises on an unreadable document
api_unir_append(r) ==
    /\ pc[r] = "unir_append"
    /\ \/ /\ pc' = [pc EXCEPT ![r] = "unir_validar"]
          /\ loc' = [loc EXCEPT ![r].i = @ + 1]
       \/ Raised(r, OtherException("TransformationFailure"), loc[r])
    /\ UNCHANGED <<fs, resp, bg, created, loop, vx, g, sv>>

\* lines 108-109: merger.write(output_path) opens the file and writes it;
\* it raises before the file is opened, or after
api_unir_write(r) ==
    /\ pc[r] = "unir_write"
    /\ LET output_path == loc[r].output_path
       IN  \/ /\ fs' = fs \cup {output_path}
              /\ created' = [created EXCEPT ![r] = @ \cup {output_path}]
              /\ pc' = [pc EXCEPT ![r] = "unir_respond"]
              /\ loc' = loc
           \/ /\ fs' = fs \cup {output_path}
              /\ created' = [created EXCEPT ![r] = @ \cup {output_path}]
              /\ Raised(r, OtherException("IOFailure"), loc[r])
           \/ /\ UNCHANGED <<fs, created>>
              /\ Raised(r, OtherException("TransformationFailure"), loc[r])
    /\ UNCHANGED <<resp, bg, loop, vx, g, sv>>

\* lines 111-112 with borrar_archivos called instead of scheduled
api_unir_respond_eager(r) ==
    /\ pc[r] = "unir_respond"
    /\ fs' = fs \ (Range(loc[r].temp_paths) \cup {loc[r].output_path})
    /\ resp' = [resp EXCEPT ![r] =
                  FileResponse(loc[r].output_path, "PDFlex_Unido.pdf", 0)]
    /\ pc' = [pc EXCEPT ![r] = "sending"]
    /\ loc' = [loc EXCEPT ![r] = loc0]
    /\ loop' = 0
    /\ UNCHANGED <<bg, created, vx, g, sv>>

\* lines 111-112
api_unir_respond(r) ==
    /\ pc[r] = "unir_respond"
    /\ bg' = [bg EXCEPT ![r] =
                Append(@, loc[r].temp_paths \o <<loc[r].output_path>>)]
    /\ resp' = [resp EXCEPT ![r] =
                  FileResponse(loc[r].output_path, "PDFlex_Unido.pdf", 0)]
    /\ pc' = [pc EXCEPT ![r] = "sending"]
    /\ loc' = [loc EXCEPT ![r] = loc0]
    /\ loop' = 0
    /\ UNCHANGED <<fs, created, vx, g, sv>>

\* lines 114-115
api_unir_except(r) ==
    /\ pc[r] = "unir_except"
    /\ loc' = [loc EXCEPT ![r].file_paths = loc[r].temp_paths, ![r].k = 1]
    /\ pc' = [pc EXCEPT ![r] = "borrar"]
    /\ UNCHANGED <<fs, resp, bg, created, loop, vx, g, sv>>

(***************************************************************************)
(* api_comprimir (lines 120-182)                                           *)
(***************************************************************************)
\* lines 121-127
api_comprimir_start(r) ==
    /\ pc[r] = "idle"
    /\ loop = 0
    /\ \E nfiles \in 0..MaxFiles :
       IF nfiles = 0
       THEN /\ resp' = [resp EXCEPT ![r] =
                          JSONResponse(400, HTTPException(400, "NoFiles"))]
            /\ pc' = [pc EXCEPT ![r] = "sending"]
            /\ UNCHANGED <<loc, loop>>
       ELSE /\ loc' = [loc EXCEPT
                 ![r].op = "comprimir", ![r].nfiles = nfiles,
                 ![r].processed_files = <<>>, ![r].temp_inputs = <<>>,
                 ![r].total_orig = 0, ![r].total_comp = 0, ![r].i = 1]
            /\ pc' = [pc EXCEPT ![r] = "comprimir_validar"]
            /\ loop' = r
            /\ UNCHANGED resp
    /\ UNCHANGED <<fs, bg, created, vx, g, sv>>

\* lines 130-131
api_comprimir_validar(r) ==
    /\ pc[r] = "comprimir_validar"
    /\ IF loc[r].i > loc[r].nfiles
       THEN /\ pc' = [pc EXCEPT ![r] = "comprimir_pack"]
            /\ loc' = loc
       ELSE \E filename \in FileNames :
              LET v == validar_extension(filename, {PDF})
              IN  IF v.raised # NoError
                  THEN Raised(r, v.raised, loc[r])
                  ELSE /\ pc' = [pc EXCEPT ![r] = "comprimir_guardar"]
                       /\ loc' = loc
    /\ UNCHANGED <<fs, resp, bg, created, loop, vx, g, sv>>

\* lines 133-138
api_comprimir_guardar(r) ==
    /\ pc[r] = "comprimir_guardar"
    /\ \E len \in StreamLens, fault \in Faults :
         LET input_path == join(UPLOAD_DIR, "", uuid4(r), PDF)
             res == guardar_con_limite(len, MAX_MB_PER_FILE, fault)
             l == [loc[r] EXCEPT !.nuuid = @ + 1, !.input_path = input_path]
         IN  /\ fs' = Persisted(fs, input_path, res)
             /\ created' = [created EXCEPT ![r] = @ \cup {input_path}]
             /\ IF res.raised # NoError
                THEN Raised(r, res.raised, l)
                ELSE /\ pc' = [pc EXCEPT ![r] = "comprimir_reader"]
                     /\ loc' = [loc EXCEPT ![r] =
                          [l EXCEPT !.temp_inputs = Append(@, input_path),
                                    !.total_orig = @ + Len(res.dest)]]
    /\ UNCHANGED <<resp, bg, loop, vx, g, sv>>

\* lines 140-146: PdfReader and the compression of every page
api_comprimir_reader(r) ==
    /\ pc[r] = "comprimir_reader"
    /\ \/ /\ pc' = [pc EXCEPT ![r] = "comprimir_output"]
          /\ loc' = loc
       \/ Raised(r, OtherException("TransformationFailure"), loc[r])
    /\ UNCHANGED <<fs, resp, bg, created, loop, vx, g, sv>>

\* lines 148-155: open(output_path, "wb") creates the file, writer.write
\* fills it or raises
api_comprimir_output(r) ==
    /\ pc[r] = "comprimir_output"
    /\ LET output_path == join(OUTPUT_DIR, "Mini_", uuid4(r), PDF)
           l == [loc[r] EXCEPT !.nuuid = @ + 1, !.output_path = output_path]
       IN  /\ created' = [created EXCEPT ![r] = @ \cup {output_path}]
           /\ \/ \E size \in CompSizes :
                   /\ fs' = fs \cup {output_path}
                   /\ pc' = [pc EXCEPT ![r] = "comprimir_validar"]
                   /\ loc' = [loc EXCEPT ![r] =
                        [l EXCEPT !.total_comp = @ + size,
                                  !.processed_files = Append(@, output_path),
                                  !.i = @ + 1]]
              \/ /\ fs' = fs \cup {output_path}
                 /\ Raised(r, OtherException("TransformationFailure"), l)
    /\ UNCHANGED <<resp, bg, loop, vx, g, sv>>

\* lines 158-167 without the processed_files.append(final_path) of line 166
api_comprimir_pack_unrecorded(r) ==
    /\ pc[r] = "comprimir_pack"
    /\ IF Len(loc[r].processed_files) = 1
       THEN /\ loc' = [loc EXCEPT
                 ![r].final_path = loc[r].processed_files[1],
                 ![r].download_name = "PDFlex_Comprimido.pdf"]
            /\ pc' = [pc EXCEPT ![r] = "comprimir_respond"]
            /\ UNCHANGED <<fs, created>>
       ELSE LET final_path == join(OUTPUT_DIR, "Pack_", uuid4(r), <<".", "z", "i", "p">>)
                l == [loc[r] EXCEPT !.nuuid = @ + 1, !.final_path = final_path]
            IN  /\ created' = [created EXCEPT ![r] = @ \cup {final_path}]
                /\ \/ /\ fs' = fs \cup {final_path}
                      /\ loc' = [loc EXCEPT ![r] =
                           [l EXCEPT !.entries = [n \in 1..Len(l.processed_files) |->
                                                    basename(l.processed_files[n])],
                                     !.download_name = "PDFlex_Pack.zip"]]
                      /\ pc' = [pc EXCEPT ![r] = "comprimir_respond"]
                   \/ /\ fs' = fs \cup {final_path}
                      /\ Raised(r, OtherException("IOFailure"), l)
    /\ UNCHANGED <<resp, bg, loop, vx, g, sv>>

\* lines 158-167: the single file, or the archive of all of them;
\* zipfile.ZipFile(final_path, 'w') creates the archive, zf.write may raise
api_comprimir_pack(r) ==
    /\ pc[r] = "comprimir_pack"
    /\ IF Len(loc[r].processed_files) = 1
       THEN /\ loc' = [loc EXCEPT
                 ![r].final_path = loc[r].processed_files[1],
                 ![r].download_name = "PDFlex_Comprimido.pdf"]
            /\ pc' = [pc EXCEPT ![r] = "comprimir_respond"]
            /\ UNCHANGED <<fs, created>>
       ELSE LET final_path == join(OUTPUT_DIR, "Pack_", uuid4(r), <<".", "z", "i", "p">>)
                l == [loc[r] EXCEPT !.nuuid = @ + 1, !.final_path = final_path]
            IN  /\ created' = [created EXCEPT ![r] = @ \cup {final_path}]
                /\ \/ /\ fs' = fs \cup {final_path}
                      /\ loc' = [loc EXCEPT ![r] =
                           [l EXCEPT !.entries = [n \in 1..Len(l.processed_files) |->
                                                    basename(l.processed_files[n])],
                                     !.processed_files = Append(@, final_path),
                                     !.download_name = "PDFlex_Pack.zip"]]
                      /\ pc' = [pc EXCEPT ![r] = "comprimir_respond"]
                   \/ /\ fs' = fs \cup {final_path}
                      /\ Raised(r, OtherException("IOFailure"), l)
    /\ UNCHANGED <<resp, bg, loop, vx, g, sv>>

\* lines 169-178
api_comprimir_respond(r) ==
    /\ pc[r] = "comprimir_respond"
    /\ LET porcentaje == savings_percent(loc[r].total_orig, loc[r].total_comp)
       IN  /\ bg' = [bg EXCEPT ![r] =
                      Append(@, loc[r].temp_inputs \o loc[r].processed_files)]
           /\ resp' = [resp EXCEPT ![r] =
                 FileResponse(loc[r].final_path, loc[r].download_name, porcentaje)]
    /\ pc' = [pc EXCEPT ![r] = "sending"]
    /\ loc' = [loc EXCEPT ![r] = loc0]
    /\ loop' = 0
    /\ UNCHANGED <<fs, created, vx, g, sv>>

\* lines 180-181 with the compressed files left out of the list
api_comprimir_except_inputs_only(r) ==
    /\ pc[r] = "comprimir_except"
    /\ loc' = [loc EXCEPT ![r].file_paths = loc[r].temp_inputs, ![r].k = 1]
    /\ pc' = [pc EXCEPT ![r] = "borrar"]
    /\ UNCHANGED <<fs, resp, bg, created, loop, vx, g, sv>>

\* lines 180-181
api_comprimir_except(r) ==
    /\ pc[r] = "comprimir_except"
    /\ loc' = [loc EXCEPT
          ![r].file_paths = loc[r].temp_inputs \o loc[r].processed_files,
          ![r].k = 1]
    /\ pc' = [pc EXCEPT ![r] = "borrar"]
    /\ UNCHANGED <<fs, resp, bg, created, loop, vx, g, sv>>

(***************************************************************************)
(* api_img2pdf (lines 186-212)                                             *)
(***************************************************************************)
\* lines 187-192
api_img2pdf_start(r) ==
    /\ pc[r] = "idle"
    /\ loop = 0
    /\ \E nfiles \in 0..MaxFiles :
       IF nfiles = 0
       THEN /\ resp' = [resp EXCEPT ![r] =
                          JSONResponse(400, HTTPException(400, "NoFiles"))]
            /\ pc' = [pc EXCEPT ![r] = "sending"]
            /\ UNCHANGED <<loc, loop>>
       ELSE /\ loc' = [loc EXCEPT
                 ![r].op = "img2pdf", ![r].nfiles = nfiles,
                 ![r].output_path = join(OUTPUT_DIR, "Album_", uuid4(r), PDF),
                 ![r].nuuid = @ + 1, ![r].img_paths = <<>>, ![r].i = 1]
            /\ pc' = [pc EXCEPT ![r] = "img2pdf_validar"]
            /\ loop' = r
            /\ UNCHANGED resp
    /\ UNCHANGED <<fs, bg, created, vx, g, sv>>

\* lines 195-196
api_img2pdf_validar(r) ==
    /\ pc[r] = "img2pdf_validar"
    /\ IF loc[r].i > loc[r].nfiles
       THEN /\ pc' = [pc EXCEPT ![r] = "img2pdf_convert"]
            /\ loc' = loc
       ELSE \E filename \in FileNames :
              LET v == validar_extension(filename, {JPG, JPEG, PNG})
              IN  IF v.raised # NoError
                  THEN Raised(r, v.raised, loc[r])
                  ELSE /\ pc' = [pc EXCEPT ![r] = "img2pdf_guardar"]
                       /\ loc' = [loc EXCEPT ![r].ext = v.value]
    /\ UNCHANGED <<fs, resp, bg, created, loop, vx, g, sv>>

\* lines 198-201
api_img2pdf_guardar(r) ==
    /\ pc[r] = "img2pdf_guardar"
    /\ \E len \in StreamLens, fault \in Faults :
         LET path == join(UPLOAD_DIR, "", uuid4(r), loc[r].ext)
             res == guardar_con_limite(len, MAX_MB_PER_FILE, fault)
             l == [loc[r] EXCEPT !.nuuid = @ + 1]
         IN  /\ fs' = Persisted(fs, path, res)
             /\ created' = [created EXCEPT ![r] = @ \cup {path}]
             /\ IF res.raised # NoError
                THEN Raised(r, res.raised, l)
                ELSE /\ pc' = [pc EXCEPT ![r] = "img2pdf_validar"]
                     /\ loc' = [loc EXCEPT ![r] =
                          [l EXCEPT !.img_paths = Append(@, path), !.i = @ + 1]]
    /\ UNCHANGED <<resp, bg, loop, vx, g, sv>>

\* lines 203-205: img2pdf.convert raises on an unreadable image; the write
\* of the document raises after open(output_path, "wb") has created it
api_img2pdf_convert(r) ==
    /\ pc[r] = "img2pdf_convert"
    /\ LET output_path == loc[r].output_path
       IN  \/ /\ fs' = fs \cup {output_path}
              /\ created' = [created EXCEPT ![r] = @ \cup {output_path}]
              /\ pc' = [pc EXCEPT ![r] = "img2pdf_respond"]
              /\ loc' = loc
           \/ /\ fs' = fs \cup {output_path}
              /\ created' = [created EXCEPT ![r] = @ \cup {output_path}]
              /\ Raised(r, OtherException("IOFailure"), loc[r])
           \/ /\ UNCHANGED <<fs, created>>
              /\ Raised(r, OtherException("TransformationFailure"), loc[r])
    /\ UNCHANGED <<resp, bg, loop, vx, g, sv>>

\* lines 207-208
api_img2pdf_respond(r) ==
    /\ pc[r] = "img2pdf_respond"
    /\ bg' = [bg EXCEPT ![r] =
                Append(@, loc[r].img_paths \o <<loc[r].output_path>>)]
    /\ resp' = [resp EXCEPT ![r] =
                  FileResponse(loc[r].output_path, "PDFlex_Album.pdf", 0)]
    /\ pc' = [pc EXCEPT ![r] = "sending"]
    /\ loc' = [loc EXCEPT ![r] = loc0]
    /\ loop' = 0
    /\ UNCHANGED <<fs, created, vx, g, sv>>

\* lines 210-211
api_img2pdf_except(r) ==
    /\ pc[r] = "img2pdf_except"
    /\ loc' = [loc EXCEPT ![r].file_paths = loc[r].img_paths, ![r].k = 1]
    /\ pc' = [pc EXCEPT ![r] = "borrar"]
    /\ UNCHANGED <<fs, resp, bg, created, loop, vx, g, sv>>

(***************************************************************************)
(* api_extraer (lines 216-253)                                             *)
(***************************************************************************)
\* lines 222-225
api_extraer_start(r) ==
    /\ pc[r] = "idle"
    /\ loop = 0
    /\ loop' = r
    /\ \E filename \in FileNames :
         LET v == validar_extension(filename, {PDF})
             l == [loc[r] EXCEPT !.op = "extraer", !.nfiles = 1, !.temp_paths = <<>>]
         IN  IF v.raised # NoError
             THEN Raised(r, v.raised, l)
             ELSE /\ pc' = [pc EXCEPT ![r] = "extraer_guardar"]
                  /\ loc' = [loc EXCEPT ![r] = l]
    /\ UNCHANGED <<fs, resp, bg, created, vx, g, sv>>

\* lines 227-230
api_extraer_guardar(r) ==
    /\ pc[r] = "extraer_guardar"
    /\ \E len \in StreamLens, fault \in Faults :
         LET input_path == join(UPLOAD_DIR, "", uuid4(r), PDF)
             res == guardar_con_limite(len, MAX_MB_PER_FILE, fault)
             l == [loc[r] EXCEPT !.nuuid = @ + 1, !.input_path = input_path]
         IN  /\ fs' = Persisted(fs, input_path, res)
             /\ created' = [created EXCEPT ![r] = @ \cup {input_path}]
             /\ IF res.raised # NoError
                THEN Raised(r, res.raised, l)
                ELSE /\ pc' = [pc EXCEPT ![r] = "extraer_rango"]
                     /\ loc' = [loc EXCEPT ![r] =
                          [l EXCEPT !.temp_paths = Append(@, input_path)]]
    /\ UNCHANGED <<resp, bg, loop, vx, g, sv>>

\* line 236 with the test of an inverted range left out
rango_invalido_sin_orden(inicio, fin, total_pages) ==
    inicio < 1 \/ fin > total_pages

\* line 236
rango_invalido(inicio, fin, total_pages) ==
    inicio < 1 \/ fin > total_pages \/ inicio > fin

\* lines 232-237: PdfReader raises on an unreadable document, else the
\* document has total_pages pages and the range of the form is checked
api_extraer_rango(r) ==
    /\ pc[r] = "extraer_rango"
    /\ \/ Raised(r, OtherException("TransformationFailure"), loc[r])
       \/ \E total_pages \in PageCounts, inicio \in PageArgs, fin \in PageArgs :
            LET l == [loc[r] EXCEPT !.total_pages = total_pages,
                                    !.inicio = inicio, !.fin = fin]
            IN  IF rango_invalido(inicio, fin, total_pages)
                THEN Raised(r, HTTPException(400, "InvalidParameter"), l)
                ELSE /\ pc' = [pc EXCEPT ![r] = "extraer_write"]
                     /\ loc' = [loc EXCEPT ![r] = l]
    /\ UNCHANGED <<fs, resp, bg, created, loop, vx, g, sv>>

\* lines 239-240: reader.pages[i] for i in range(inicio - 1, fin), the pages
\* of the document being numbered from 1
paginas(inicio, fin) ==
    [j \in 1..(fin - (inicio - 1)) |-> (inicio - 1) + j]

\* lines 239-246
api_extraer_write(r) ==
    /\ pc[r] = "extraer_write"
    /\ LET pages == paginas(loc[r].inicio, loc[r].fin)
           output_path == join(OUTPUT_DIR, "Extraido_", uuid4(r), PDF)
           l == [loc[r] EXCEPT !.nuuid = @ + 1, !.output_path = output_path,
                               !.pages = pages]
       IN  /\ created' = [created EXCEPT ![r] = @ \cup {output_path}]
           /\ \/ /\ fs' = fs \cup {output_path}
                 /\ pc' = [pc EXCEPT ![r] = "extraer_respond"]
                 /\ loc' = [loc EXCEPT ![r] = l]
              \/ /\ fs' = fs \cup {output_path}
                 /\ Raised(r, OtherException("IOFailure"), l)
    /\ UNCHANGED <<resp, bg, loop, vx, g, sv>>

\* lines 248-249 without the add_task of line 248
api_extraer_respond_unscheduled(r) ==
    /\ pc[r] = "extraer_respond"
    /\ resp' = [resp EXCEPT ![r] =
                  FileResponse(loc[r].output_path, "PDFlex_Extraido.pdf", 0)]
    /\ pc' = [pc EXCEPT ![r] = "sending"]
    /\ loc' = [loc EXCEPT ![r] = loc0]
    /\ loop' = 0
    /\ UNCHANGED <<fs, bg, created, vx, g, sv>>

\* lines 248-249
api_extraer_respond(r) ==
    /\ pc[r] = "extraer_respond"
    /\ bg' = [bg EXCEPT ![r] =
                Append(@, loc[r].temp_paths \o <<loc[r].output_path>>)]
    /\ resp' = [resp EXCEPT ![r] =
                  FileResponse(loc[r].output_path, "PDFlex_Extraido.pdf", 0)]
    /\ pc' = [pc EXCEPT ![r] = "sending"]
    /\ loc' = [loc EXCEPT ![r] = loc0]
    /\ loop' = 0
    /\ UNCHANGED <<fs, created, vx, g, sv>>

\* lines 251-252
api_extraer_except(r) ==
    /\ pc[r] = "extraer_except"
    /\ loc' = [loc EXCEPT ![r].file_paths = loc[r].temp_paths, ![r].k = 1]
    /\ pc' = [pc EXCEPT ![r] = "borrar"]
    /\ UNCHANGED <<fs, resp, bg, created, loop, vx, g, sv>>

(***************************************************************************)
(* api_rotar (lines 257-293)                                               *)
(***************************************************************************)
\* lines 262-265
api_rotar_start(r) ==
    /\ pc[r] = "idle"
    /\ loop = 0
    /\ loop' = r
    /\ \E filename \in FileNames :
         LET v == validar_extension(filename, {PDF})
             l == [loc[r] EXCEPT !.op = "rotar", !.nfiles = 1, !.temp_paths = <<>>]
         IN  IF v.raised # NoError
             THEN Raised(r, v.raised, l)
             ELSE /\ pc' = [pc EXCEPT ![r] = "rotar_grados"]
                  /\ loc' = [loc EXCEPT ![r] = l]
    /\ UNCHANGED <<fs, resp, bg, created, vx, g, sv>>

\* line 267 accepting every multiple of 90
grados_permitidos_multiplo(grados) == grados % 90 = 0

\* line 267
grados_permitidos(grados) == grados \in {90, 180, 270}

\* lines 267-268
api_rotar_grados(r) ==
    /\ pc[r] = "rotar_grados"
    /\ \E grados \in Grados :
         LET l == [loc[r] EXCEPT !.grados = grados]
         IN  IF ~grados_permitidos(grados)
             THEN Raised(r, HTTPException(400, "InvalidParameter"), l)
             ELSE /\ pc' = [pc EXCEPT ![r] = "rotar_guardar"]
                  /\ loc' = [loc EXCEPT ![r] = l]
    /\ UNCHANGED <<fs, resp, bg, created, loop, vx, g, sv>>

\* lines 270-273
api_rotar_guardar(r) ==
    /\ pc[r] = "rotar_guardar"
    /\ \E len \in StreamLens, fault \in Faults :
         LET input_path == join(UPLOAD_DIR, "", uuid4(r), PDF)
             res == guardar_con_limite(len, MAX_MB_PER_FILE, fault)
             l == [loc[r] EXCEPT !.nuuid = @ + 1, !.input_path = input_path]
         IN  /\ fs' = Persisted(fs, input_path, res)
             /\ created' = [created EXCEPT ![r] = @ \cup {input_path}]
             /\ IF res.raised # NoError
                THEN Raised(r, res.raised, l)
                ELSE /\ pc' = [pc EXCEPT ![r] = "rotar_reader"]
                     /\ loc' = [loc EXCEPT ![r] =
                          [l EXCEPT !.temp_paths = Append(@, input_path)]]
    /\ UNCHANGED <<resp, bg, loop, vx, g, sv>>

\* lines 275-280: PdfReader and the rotation of every page
api_rotar_reader(r) ==
    /\ pc[r] = "rotar_reader"
    /\ \/ /\ pc' = [pc EXCEPT ![r] = "rotar_write"]
          /\ loc' = loc
       \/ Raised(r, OtherException("TransformationFailure"), loc[r])
    /\ UNCHANGED <<fs, resp, bg, created, loop, vx, g, sv>>

\* lines 282-286
api_rotar_write(r) ==
    /\ pc[r] = "rotar_write"
    /\ LET output_path == join(OUTPUT_DIR, "Rotado_", uuid4(r), PDF)
           l == [loc[r] EXCEPT !.nuuid = @ + 1, !.output_path = output_path]
       IN  /\ created' = [created EXCEPT ![r] = @ \cup {output_path}]
           /\ \/ /\ fs' = fs \cup {output_path}
                 /\ pc' = [pc EXCEPT ![r] = "rotar_respond"]
                 /\ loc' = [loc EXCEPT ![r] = l]
              \/ /\ fs' = fs \cup {output_path}
                 /\ Raised(r, OtherException("IOFailure"), l)
    /\ UNCHANGED <<resp, bg, loop, vx, g, sv>>

\* lines 288-289
api_rotar_respond(r) ==
    /\ pc[r] = "rotar_respond"
    /\ bg' = [bg EXCEPT ![r] =
                Append(@, loc[r].temp_paths \o <<loc[r].output_path>>)]
    /\ resp' = [resp EXCEPT ![r] =
                  FileResponse(loc[r].output_path, "PDFlex_Rotado.pdf", 0)]
    /\ pc' = [pc EXCEPT ![r] = "sending"]
    /\ loc' = [loc EXCEPT ![r] = loc0]
    /\ loop' = 0
    /\ UNCHANGED <<fs, created, vx, g, sv>>

\* lines 291-292
api_rotar_except(r) ==
    /\ pc[r] = "rotar_except"
    /\ loc' = [loc EXCEPT ![r].file_paths = loc[r].temp_paths, ![r].k = 1]
    /\ pc' = [pc EXCEPT ![r] = "borrar"]
    /\ UNCHANGED <<fs, resp, bg, created, loop, vx, g, sv>>

(***************************************************************************)
(* The specification of the requests.  At start-up limpiar_inicio has      *)
(* emptied both directories (lines 29-41).                                 *)
(***************************************************************************)
vx0 == [filename |-> <<>>, permitidas |-> {}, called |-> FALSE,
        out |-> [raised |-> NoError, value |-> <<>>]]

g0 == g_call(0, FALSE, 0)

sv0 == [total_orig |-> 0, total_comp |-> 0, called |-> FALSE, porcentaje |-> 0]

InitMain ==
    /\ pc = [r \in Reqs |-> "idle"]
    /\ loc = [r \in Reqs |-> loc0]
    /\ fs = {}
    /\ resp = [r \in Reqs |-> NoResponse]
    /\ bg = [r \in Reqs |-> <<>>]
    /\ created = [r \in Reqs |-> {}]
    /\ loop = 0

Init == InitMain /\ vx = vx0 /\ g = g0 /\ sv = sv0

\* one request at a time
InitSolo ==
    /\ pc = [r \in Reqs |-> IF r = 1 THEN "idle" ELSE "off"]
    /\ loc = [r \in Reqs |-> loc0]
    /\ fs = {}
    /\ resp = [r \in Reqs |-> NoResponse]
    /\ bg = [r \in Reqs |-> <<>>]
    /\ created = [r \in Reqs |-> {}]
    /\ loop = 0
    /\ vx = vx0 /\ g = g0 /\ sv = sv0

Next ==
    \E r \in Reqs :
       \/ borrar_archivos(r)
       \/ except_return(r)
       \/ Send(r)
       \/ background_done(r)
       \/ api_unir_start(r)
       \/ api_unir_validar(r)
       \/ api_unir_guardar(r)
       \/ api_unir_append(r)
       \/ api_unir_write(r)
       \/ api_unir_respond(r)
       \/ api_unir_except(r)
       \/ api_comprimir_start(r)
       \/ api_comprimir_validar(r)
       \/ api_comprimir_guardar(r)
       \/ api_comprimir_reader(r)
       \/ api_comprimir_output(r)
       \/ api_comprimir_pack(r)
       \/ api_comprimir_respond(r)
       \/ api_comprimir_except(r)
       \/ api_img2pdf_start(r)
       \/ api_img2pdf_validar(r)
       \/ api_img2pdf_guardar(r)
       \/ api_img2pdf_convert(r)
       \/ api_img2pdf_respond(r)
       \/ api_img2pdf_except(r)
       \/ api_extraer_start(r)
       \/ api_extraer_guardar(r)
       \/ api_extraer_rango(r)
       \/ api_extraer_write(r)
       \/ api_extraer_respond(r)
       \/ api_extraer_except(r)
       \/ api_rotar_start(r)
       \/ api_rotar_grados(r)
       \/ api_rotar_guardar(r)
       \/ api_rotar_reader(r)
       \/ api_rotar_write(r)
       \/ api_rotar_respond(r)
       \/ api_rotar_except(r)

Spec == Init /\ [][Next]_vars

SpecSolo == InitSolo /\ [][Next]_vars

(***************************************************************************)
(* SpecExt: validar_extension applied to every file name of at most        *)
(* MaxNameLen characters, and to the names the handlers are given, under   *)
(* the allow-sets of the program.                                          *)
(***************************************************************************)
NameChars == {".", "/", "P", "p", "d", "f"}

Names == UNION {[1..n -> NameChars] : n \in 0..MaxNameLen} \cup FileNames

AllowSets == {{PDF}, {JPG, JPEG, PNG}, ALLOWED_EXTENSIONS}

InitExt ==
    /\ InitMain
    /\ g = g0
    /\ sv = sv0
    /\ vx \in {[vx0 EXCEPT !.filename = n, !.permitidas = a] :
                 n \in Names, a \in AllowSets}

Validate ==
    /\ ~vx.called
    /\ vx' = [vx EXCEPT !.called = TRUE,
                        !.out = validar_extension(vx.filename, vx.permitidas)]
    /\ UNCHANGED <<pc, loc, fs, resp, bg, created, loop, g, sv>>

NextExt == Validate

SpecExt == InitExt /\ [][NextExt]_vars

(***************************************************************************)
(* SpecSave: one call of guardar_con_limite on a stream of any length up   *)
(* to one chunk and one byte over the limit, or on a stream that never     *)
(* ends; every read returns between one byte and a full chunk.             *)
(***************************************************************************)
MaxStreamLen == LimitBytes + CHUNK + 1

InitSave ==
    /\ InitMain
    /\ vx = vx0
    /\ sv = sv0
    /\ \E len \in 0..MaxStreamLen, endless \in BOOLEAN, max_mb \in {1, MAX_MB_PER_FILE} :
          /\ endless => len = 0
          /\ g = g_call(len, endless, max_mb)

GOpen ==
    /\ g.pc = "open"
    /\ g' = g_open(g)
    /\ UNCHANGED <<pc, loc, fs, resp, bg, created, loop, vx, sv>>

GRead ==
    /\ g.pc = "read"
    /\ \E k \in 0..g_avail(g) :
          /\ k = 0 => g_avail(g) = 0
          /\ g' = g_read(g, k)
    /\ UNCHANGED <<pc, loc, fs, resp, bg, created, loop, vx, sv>>

GReadFails ==
    /\ g.pc = "read"
    /\ g' = g_read_fails(g)
    /\ UNCHANGED <<pc, loc, fs, resp, bg, created, loop, vx, sv>>

GBreak ==
    /\ g.pc = "chunk"
    /\ g.chunk = <<>>
    /\ g' = g_break(g)
    /\ UNCHANGED <<pc, loc, fs, resp, bg, created, loop, vx, sv>>

GCount ==
    /\ g.pc = "chunk"
    /\ g.chunk # <<>>
    /\ g' = g_count(g)
    /\ UNCHANGED <<pc, loc, fs, resp, bg, created, loop, vx, sv>>

GWrite ==
    /\ g.pc = "write"
    /\ g' = g_write(g)
    /\ UNCHANGED <<pc, loc, fs, resp, bg, created, loop, vx, sv>>

GWriteFails ==
    /\ g.pc = "write"
    /\ \E j \in 0..(Len(g.chunk) - 1) : g' = g_write_fails(g, j)
    /\ UNCHANGED <<pc, loc, fs, resp, bg, created, loop, vx, sv>>

NextSave ==
    \/ GOpen
    \/ GRead
    \/ GReadFails
    \/ GBreak
    \/ GCount
    \/ GWrite
    \/ GWriteFails

SpecSave == InitSave /\ [][NextSave]_vars

(***************************************************************************)
(* SpecPct: the savings percentage of api_comprimir on every pair of       *)
(* totals up to MaxBytes.                                                  *)
(***************************************************************************)
InitPct ==
    /\ InitMain
    /\ vx = vx0
    /\ g = g0
    /\ sv \in {[sv0 EXCEPT !.total_orig = o, !.total_comp = c] :
                 o \in 0..MaxBytes, c \in 0..MaxBytes}

Porcentaje ==
    /\ ~sv.called
    /\ sv' = [sv EXCEPT !.called = TRUE,
                        !.porcentaje = savings_percent(sv.total_orig, sv.total_comp)]
    /\ UNCHANGED <<pc, loc, fs, resp, bg, created, loop, vx, g>>

NextPct == Porcentaje

SpecPct == InitPct /\ [][NextPct]_vars

(***************************************************************************)
(* SpecClean: borrar_archivos as a background task on every list of up to  *)
(* MaxPaths paths (repetitions included) and every content of the disk.    *)
(***************************************************************************)
CleanPaths == {join(UPLOAD_DIR, "", <<1, i>>, PDF) : i \in 1..MaxPaths}

CleanLists == UNION {[1..n -> CleanPaths] : n \in 0..MaxPaths}

InitClean ==
    /\ pc = [r \in Reqs |-> IF r = 1 THEN "background" ELSE "off"]
    /\ \E file_paths \in CleanLists :
          loc = [r \in Reqs |->
                   IF r = 1 THEN [loc0 EXCEPT !.file_paths = file_paths, !.k = 1]
                   ELSE loc0]
    /\ fs \in SUBSET CleanPaths
    /\ resp = [r \in Reqs |-> NoResponse]
    /\ bg = [r \in Reqs |-> <<>>]
    /\ created = [r \in Reqs |-> {}]
    /\ loop = 0
    /\ vx = vx0 /\ g = g0 /\ sv = sv0

NextClean == borrar_archivos(1) \/ background_done(1)

SpecClean == InitClean /\ [][NextClean]_vars

(***************************************************************************)
(* Properties                                                              *)
(***************************************************************************)
\* the handler of r has run the borrar_archivos of its except clause to the end
CleanupHasRun(r) == pc[r] = "borrar" /\ loc[r].k > Len(loc[r].file_paths)

\* the lists of r in which the handlers record the files they create
Ledger(r) ==
    Range(loc[r].temp_paths) \cup Range(loc[r].temp_inputs)
        \cup Range(loc[r].processed_files) \cup Range(loc[r].img_paths)

\* C1: when a request ends with an error response, no file that the request
\* created is left in temp_uploads or temp_outputs once the cleanup of its
\* handler has run (no removal having raised).
C1_NoLeakOnError ==
    \A r \in Reqs :
        (CleanupHasRun(r) /\ ~loc[r].rm_raised) => created[r] \cap fs = {}

\* C2: after the cleanup of a request has completed without a removal
\* raising, every path recorded in its lists (on failure), and every path
\* handed to the background task, the output among them (on success), is
\* absent from the filesystem.
C2_LedgerAbsentAfterCleanup ==
    \A r \in Reqs :
        /\ (CleanupHasRun(r) /\ ~loc[r].rm_raised) => Ledger(r) \cap fs = {}
        /\ (pc[r] = "done" /\ bg[r] # <<>> /\ ~loc[r].rm_raised) =>
               /\ Range(bg[r][1]) \cap fs = {}
               /\ resp[r].path \in Range(bg[r][1])

C2_Witness ==
    \E r \in Reqs :
        /\ CleanupHasRun(r)
        /\ ~loc[r].rm_raised
        /\ loc[r].op = "comprimir"
        /\ loc[r].temp_inputs # <<>>
        /\ loc[r].processed_files # <<>>
        /\ Ledger(r) \cap fs = {}

\* the true length of the stream of the call exceeds the limit of the call
OverLimit(s) == s.endless \/ s.len > s.max_mb * MiB

\* C3: a call of guardar_con_limite on a stream longer than the limit never
\* returns normally, and unless an I/O error ended it first it raises the
\* 413 size-limit error with the destination file removed.
C3_OverLimitRaisesWithoutFile ==
    (g_done(g) /\ OverLimit(g)) =>
        /\ g.pc = "raised"
        /\ g.raised.kind # "IOFailure" =>
              /\ g.raised = HTTPException(413, "SizeLimitExceeded")
              /\ ~g.exists
              /\ g.dest = <<>>

C3_Witness ==
    /\ g.pc = "raised"
    /\ g.raised.status = 413
    /\ g.max_mb = MAX_MB_PER_FILE
    /\ g.len = LimitBytes + 1
    /\ ~g.exists

\* C4: during a call of guardar_con_limite the destination never holds more
\* bytes than the limit, a chunk is written only after the total that
\* includes it was found within the limit, and the chunk in memory is never
\* larger than one read.
C4_WrittenWithinLimit ==
    /\ Len(g.dest) <= g.max_mb * MiB
    /\ Len(g.dest) <= g.file_size
    /\ Len(g.chunk) <= CHUNK
    /\ g.pc = "write" => g.file_size <= g.max_mb * MiB

C4_Witness ==
    /\ g.endless
    /\ g.pc = "chunk"
    /\ g.chunk # <<>>
    /\ Len(g.dest) = g.max_mb * MiB

\* the status the error kinds are documented to have
StatusOf(kind) ==
    CASE kind \in {"InvalidExtension", "InvalidParameter", "NoFiles"} -> 400
      [] kind = "SizeLimitExceeded" -> 413
      [] OTHER -> 500

\* C5: the status of an error response is the one of its error kind: 400
\* for a disallowed extension or an invalid parameter, 413 for an upload
\* over the size limit, 500 for an internal or transformer failure.
C5_StatusByErrorKind ==
    \A r \in Reqs :
        resp[r].kind = "json" =>
            resp[r].status_code = StatusOf(resp[r].error.kind)

\* C7: while the response of a successful request is being sent, the file it
\* references and every file handed to the background task exist, whatever
\* the cleanups of this and of the other requests have done so far.
C7_FileExistsUntilSent ==
    \A r \in Reqs :
        (pc[r] = "sending" /\ resp[r].kind = "file") =>
            /\ resp[r].path \in fs
            /\ bg[r] # <<>>
            /\ Range(bg[r][1]) \subseteq fs

C7_Witness ==
    \E r \in Reqs, q \in Reqs :
        /\ r # q
        /\ pc[r] = "sending"
        /\ resp[r].kind = "file"
        /\ resp[r].path \in fs
        /\ pc[q] = "background"
        /\ loc[q].k > 1

\* the extension of a file name, said without os.path.splitext: the last n
\* characters are an extension when they start with a dot, hold no other dot
\* and no separator, and the path component before that dot has a character
\* that is not a dot
HasExtension(name, n) ==
    LET dot == Len(name) - n + 1
    IN  /\ n >= 1
        /\ n <= Len(name)
        /\ name[dot] = "."
        /\ \A i \in (dot + 1)..Len(name) : name[i] \notin {".", "/"}
        /\ \E j \in 1..(dot - 1) :
              /\ name[j] # "."
              /\ \A m \in j..(dot - 1) : name[m] # "/"

LoweredSuffix(name) ==
    IF \E n \in 1..Len(name) : HasExtension(name, n)
    THEN LET n == CHOOSE n \in 1..Len(name) : HasExtension(name, n)
         IN  lower(SubSeq(name, Len(name) - n + 1, Len(name)))
    ELSE <<>>

\* C8: validar_extension returns the lowercased suffix of the file name when
\* that suffix is in the allow-set and raises the invalid-extension error
\* otherwise ("a.PDF" passes {".pdf"}, "a.exe" does not); the call leaves the
\* filesystem and the lists of the requests as they were.
C8_ValidarExtension ==
    vx.called =>
        /\ IF LoweredSuffix(vx.filename) \in vx.permitidas
           THEN vx.out = [raised |-> NoError, value |-> LoweredSuffix(vx.filename)]
           ELSE vx.out.raised = HTTPException(400, "InvalidExtension")
        /\ (vx.filename = <<"a", ".", "P", "D", "F">> /\ vx.permitidas = {PDF})
               => vx.out.value = PDF
        /\ vx.filename = <<"a", ".", "e", "x", "e">>
               => vx.out.raised.kind = "InvalidExtension"
        /\ fs = {}
        /\ \A r \in Reqs : Ledger(r) = {}

C8_Witness ==
    /\ vx.called
    /\ vx.filename = <<"a", ".", "P", "D", "F">>
    /\ vx.permitidas = {PDF}
    /\ vx.out = [raised |-> NoError, value |-> PDF]

\* the range of the form lies within the document and is not inverted
RangoValido(l) == 1 <= l.inicio /\ l.inicio <= l.fin /\ l.fin <= l.total_pages

\* C9: extract-range goes on to write its output exactly when
\* 1 <= inicio <= fin <= N, and the output then holds the fin - inicio + 1
\* pages inicio..fin in order; otherwise it raises the invalid-parameter
\* error and has created no output file.
C9_ExtraerRango ==
    \A r \in Reqs :
        /\ pc[r] \in {"extraer_write", "extraer_respond"} => RangoValido(loc[r])
        /\ pc[r] = "extraer_respond" =>
              /\ Len(loc[r].pages) = loc[r].fin - loc[r].inicio + 1
              /\ \A j \in 1..Len(loc[r].pages) :
                    loc[r].pages[j] = loc[r].inicio + j - 1
              /\ loc[r].output_path \in fs
        /\ (pc[r] = "extraer_except" /\ loc[r].exc.kind = "InvalidParameter") =>
              /\ ~RangoValido(loc[r])
              /\ loc[r].exc = HTTPException(400, "InvalidParameter")
              /\ \A p \in created[r] \cup fs : p[1] # OUTPUT_DIR

C9_Witness ==
    \E r \in Reqs :
        /\ pc[r] = "extraer_respond"
        /\ loc[r].total_pages = 5
        /\ loc[r].inicio = 1
        /\ loc[r].fin = 5
        /\ loc[r].pages = <<1, 2, 3, 4, 5>>

\* C10: a rotate request goes on to persist its upload only when the angle is
\* 90, 180 or 270; for every other angle it raises the invalid-parameter
\* error with no file created.
C10_RotarGrados ==
    \A r \in Reqs :
        /\ pc[r] \in {"rotar_guardar", "rotar_reader", "rotar_write", "rotar_respond"}
              => loc[r].grados \in {90, 180, 270}
        /\ (loc[r].op = "rotar" /\ created[r] # {})
              => loc[r].grados \in {90, 180, 270}
        /\ (pc[r] = "rotar_except" /\ loc[r].exc.kind = "InvalidParameter") =>
              /\ loc[r].grados \notin {90, 180, 270}
              /\ created[r] = {}
              /\ fs = {}

C10_Witness ==
    \E r \in Reqs :
        /\ pc[r] = "rotar_except"
        /\ loc[r].exc = HTTPException(400, "InvalidParameter")
        /\ loc[r].grados = 45
        /\ created[r] = {}

\* C11: the savings percentage of a compress request is
\* floor((orig - compressed) / orig * 100) for all totals with orig > 0, and
\* 0 when orig = 0.
C11_SavingsIsFloor ==
    sv.called =>
        sv.porcentaje =
            IF sv.total_orig > 0
            THEN ((sv.total_orig - sv.total_comp) * 100) \div sv.total_orig
            ELSE 0

\* the kinds of failure of the steps inside a request
FailureKinds ==
    {"InvalidExtension", "InvalidParameter", "SizeLimitExceeded",
     "TransformationFailure", "IOFailure"}

\* C12: every failure of a step inside a request is caught by the handler of
\* the operation and turned into a JSON error response: a raised error is
\* held by the except clause of the handler that raised it, a request that
\* has left its handler has a response, and a JSON response carries the
\* error it reports.
C12_FailuresBecomeJsonErrors ==
    \A r \in Reqs :
        /\ loc[r].exc # NoError =>
               /\ loc[r].exc.kind \in FailureKinds
               /\ pc[r] \in {loc[r].op \o "_except", "borrar"}
        /\ pc[r] \in {"sending", "background", "done"} =>
               resp[r] # NoResponse
        /\ pc[r] \in {"idle", "off", "sending", "background", "done"} =>
               loc[r].exc = NoError
        /\ resp[r].kind = "json" =>
               /\ resp[r].error # NoError
               /\ resp[r].status_code \in {400, 500}

C12_Witness ==
    \E r \in Reqs :
        /\ pc[r] = "done"
        /\ resp[r].kind = "json"
        /\ resp[r].error.kind = "TransformationFailure"

\* C13: in unir, comprimir and img2pdf, when a declared file of the request
\* has a disallowed extension the request fails with no file created yet:
\* the validation of all the files precedes the creation of any file.
C13_NoArtifactOnInvalidExtension ==
    \A r \in Reqs :
        (/\ pc[r] \in {"unir_except", "comprimir_except", "img2pdf_except"}
         /\ loc[r].exc.kind = "InvalidExtension") =>
            created[r] = {}

\* C14: ledger invariant: wherever a step of a handler fails, every file the
\* request has created and that still exists is in the list the except
\* clause passes to borrar_archivos (the upload being written, the output
\* being written and the archive being filled included).
C14_LedgerHoldsEveryCreatedFile ==
    \A r \in Reqs :
        (pc[r] = "borrar" /\ loc[r].k = 1) =>
            (created[r] \cap fs) \subseteq Range(loc[r].file_paths)

\* the steps that call guardar_con_limite
GuardarSteps ==
    {"unir_guardar", "comprimir_guardar", "img2pdf_guardar",
     "extraer_guardar", "rotar_guardar"}

\* C15: when the stream breaks or a write to the disk fails part-way through
\* guardar_con_limite, the request aborts and its cleanup (no removal
\* raising) removes the partially written destination and every file the
\* request ingested before.
C15_CleanupAfterBrokenUpload ==
    \A r \in Reqs :
        (/\ CleanupHasRun(r)
         /\ ~loc[r].rm_raised
         /\ loc[r].at \in GuardarSteps
         /\ loc[r].exc.kind = "IOFailure") =>
            created[r] \cap fs = {}

\* the handler of r has returned
Returned(r) == pc[r] \in {"sending", "background", "done"}

\* the cleanups started for r so far: none, the call of the except clause,
\* or the background task
NoCleanup(r) == bg[r] = <<>> /\ resp[r].status_code # 500
SyncCleanupOnly(r) == bg[r] = <<>> /\ resp[r].status_code = 500
BackgroundCleanupOnly(r) == Len(bg[r]) = 1 /\ resp[r].kind = "file"

C16_State ==
    \A r \in Reqs :
        /\ Len(bg[r]) <= 1
        /\ pc[r] \in {loc[r].op \o "_except", "borrar"} => bg[r] = <<>>
        /\ Returned(r) =>
              \/ BackgroundCleanupOnly(r)
              \/ SyncCleanupOnly(r)
              \/ NoCleanup(r) /\ resp[r].error.kind = "NoFiles"

C16_Step ==
    \A r \in Reqs :
        \* borrar_archivos is entered from the except clause only, the
        \* background task after a file response only
        /\ (pc'[r] = "borrar" /\ pc[r] # "borrar") =>
               pc[r] = loc[r].op \o "_except"
        /\ (pc'[r] = "background" /\ pc[r] # "background") =>
               pc[r] = "sending" /\ resp[r].kind = "file"
        \* a 500 response is returned once the except clause's call is over
        /\ (resp'[r] # resp[r] /\ resp'[r].status_code = 500) =>
               CleanupHasRun(r)
        \* a file of r leaves the disk as the current path of a cleanup of r
        /\ \A p \in (fs \ fs') \cap created[r] :
               /\ pc[r] \in {"borrar", "background"}
               /\ loc[r].k <= Len(loc[r].file_paths)
               /\ loc[r].file_paths[loc[r].k] = p
               /\ loc'[r].k = loc[r].k + 1
               /\ \A q \in Reqs \ {r} : p \notin created[q]
        \* and a path never names a second file
        /\ \A p \in fs' \ fs : p \notin created[r]

\* C16: for every request that reaches its ingest loop the cleanup over its
\* lists is started exactly once, as a background task after a file response
\* or by the except clause before a 500 response, never both and never
\* neither; a recorded path is removed at most once, and only by the cleanup
\* of the request that created it.
C16_CleanupExactlyOnce == [][C16_State' /\ C16_Step]_vars

C16_Witness ==
    \E r \in Reqs, q \in Reqs :
        /\ r # q
        /\ pc[r] = "done" /\ BackgroundCleanupOnly(r)
        /\ pc[q] = "done" /\ SyncCleanupOnly(q)
        /\ created[q] # {}
        /\ (Range(bg[r][1]) \cup created[q]) \cap fs = {}

\* C17: borrar_archivos treats each path on its own.  On every iteration of
\* its loop: it stays in the loop (nothing is raised to the caller), it
\* moves to the next path (one pass, no retry, the other paths still
\* attempted), it touches no file but the current one, a missing path is
\* skipped without an error, and a file that stays is one whose removal
\* failed; past the last path it returns without touching the disk.
C17_Step ==
    \A r \in Reqs :
        LET l == loc[r]
        IN  (/\ pc[r] \in {"borrar", "background"}
             /\ <<pc[r], l, fs>> # <<pc'[r], loc'[r], fs'>>) =>
                IF l.k <= Len(l.file_paths)
                THEN LET path == l.file_paths[l.k]
                     IN  /\ pc'[r] = pc[r]
                         /\ loc'[r].k = l.k + 1
                         /\ loc'[r].file_paths = l.file_paths
                         /\ fs' \subseteq fs
                         /\ fs \ fs' \subseteq {path}
                         /\ path \notin fs =>
                               fs' = fs /\ loc'[r].rm_raised = l.rm_raised
                         /\ path \in fs' => loc'[r].rm_raised
                ELSE /\ pc'[r] \notin {"borrar", "background"}
                     /\ fs' = fs

C17_BorrarArchivosIndependent == [][C17_Step]_vars

\* a run over a list whose second path could not be removed and whose third
\* path repeats the first: the first is gone, the run reached the end
C17_Witness ==
    /\ pc[1] = "done"
    /\ Len(loc[1].file_paths) = 3
    /\ loc[1].file_paths[3] = loc[1].file_paths[1]
    /\ loc[1].file_paths[1] \notin fs
    /\ loc[1].file_paths[2] \in fs
    /\ loc[1].rm_raised

\* C18: a call of guardar_con_limite on a stream of at most the limit (the
\* empty stream and the stream of exactly the limit included) ends, unless
\* an I/O error ends it, by returning, and a call that returns leaves a
\* destination file holding the bytes of the stream, all of them, in order.
C18_WithinLimitSaved ==
    /\ (g_done(g) /\ ~OverLimit(g) /\ g.raised.kind # "IOFailure") =>
           g.pc = "returned"
    /\ g.pc = "returned" =>
           /\ g.exists
           /\ g.raised = NoError
           /\ g.dest = [i \in 1..g.len |-> i]

C18_Witness ==
    /\ g.pc = "returned"
    /\ g.max_mb = MAX_MB_PER_FILE
    /\ g.len = LimitBytes
    /\ Len(g.dest) = LimitBytes

C18_WitnessEmpty ==
    /\ g.pc = "returned"
    /\ g.len = 0
    /\ g.exists
    /\ g.dest = <<>>

NoDuplicates(q) == Cardinality(Range(q)) = Len(q)

C19_Step ==
    \A r \in Reqs :
        (pc[r] = "comprimir_respond" /\ pc'[r] = "sending") =>
            LET l == loc[r]
                n == l.nfiles
                list == bg'[r][1]
            IN  /\ resp'[r].kind = "file"
                /\ Len(l.temp_inputs) = n
                /\ IF n = 1
                   THEN /\ Len(l.processed_files) = 1
                        /\ resp'[r].path = l.processed_files[1]
                        /\ resp'[r].path[2] = "Mini_"
                        /\ resp'[r].filename = "PDFlex_Comprimido.pdf"
                        /\ l.entries = <<>>
                   ELSE /\ Len(l.processed_files) = n + 1
                        /\ resp'[r].path = l.processed_files[n + 1]
                        /\ resp'[r].path[2] = "Pack_"
                        /\ resp'[r].filename = "PDFlex_Pack.zip"
                        /\ Len(l.entries) = n
                        /\ NoDuplicates(l.entries)
                        /\ \A i \in 1..n :
                              l.entries[i] = basename(l.processed_files[i])
                /\ Len(bg'[r]) = 1
                /\ NoDuplicates(list)
                /\ Range(list) = Range(l.temp_inputs) \cup Range(l.processed_files)
                /\ Range(list) = created[r]
                /\ Len(list) = IF n = 1 THEN 2 ELSE 2 * n + 1

\* C19: a successful compress request with one input responds with the
\* compressed file of that input; with n > 1 inputs it responds with one
\* archive holding one entry per input, n in all; and the list handed to the
\* cleanup holds every input, every compressed output and the archive, each
\* once.
C19_CompressResponse == [][C19_Step]_vars

C19_Witness ==
    \E r \in Reqs :
        /\ pc[r] = "sending"
        /\ resp[r].filename = "PDFlex_Pack.zip"
        /\ resp[r].path \in Range(bg[r][1])
        /\ Len(bg[r][1]) >= 5

\* C20: every path a handler creates is a workspace directory joined with a
\* fresh random identifier and the canonical extension of the operation,
\* and owes nothing to the names of the uploaded files, in img2pdf as in the
\* other operations: the paths of one request that have the same directory
\* and the same prefix have the same extension, whatever the files of the
\* request are called.
C20_PathsIgnoreNames ==
    \A r \in Reqs :
        \A p \in created[r] :
            /\ p[1] \in {UPLOAD_DIR, OUTPUT_DIR}
            /\ p[3][1] = r
            /\ \A q \in created[r] :
                  (p[1] = q[1] /\ p[2] = q[2]) => p[4] = q[4]

ZIP == <<".", "z", "i", "p">>

\* C20, amended: every path a handler creates is a workspace directory
\* joined with a fixed prefix, an identifier no earlier path has, and an
\* extension that is ".pdf" (".zip" for the archive of comprimir), except
\* for the uploads of img2pdf, whose extension is the lower-cased extension
\* of the declared name of the file, one of ".jpg", ".jpeg", ".png";
\* nothing else of a name enters a path.
C20_Step ==
    \A r \in Reqs :
        \A p \in created'[r] \ created[r] :
            /\ p[1] \in {UPLOAD_DIR, OUTPUT_DIR}
            /\ p[3][1] = r
            /\ \A q \in Reqs : \A o \in created[q] : o[3] # p[3]
            /\ IF loc[r].op = "img2pdf" /\ p[1] = UPLOAD_DIR
               THEN /\ p[2] = ""
                    /\ p[4] = loc[r].ext
                    /\ p[4] \in {JPG, JPEG, PNG}
               ELSE /\ p[2] \in IF p[1] = UPLOAD_DIR THEN {""}
                                ELSE {"Unido_", "Mini_", "Pack_", "Album_",
                                      "Extraido_", "Rotado_"}
                    /\ p[4] = IF p[2] = "Pack_" THEN ZIP ELSE PDF

C20_PathsFromFixedExtensions == [][C20_Step]_vars

\* an img2pdf request whose uploads were named a.JPG and a.png
C20_Witness ==
    \E r \in Reqs :
        \E p \in created[r], q \in created[r] :
            /\ p[1] = UPLOAD_DIR /\ q[1] = UPLOAD_DIR
            /\ p[4] = JPG
            /\ q[4] = PNG

====
